---- MODULE Spec2Model ----
(***************************************************************************)
(* Model of the Array container of paul_lopez::containers (Level4 Sect2.6  *)
(* Exercise1) and of its predecessor in Level4 Sect2.5 Exercise3.           *)
(*                                                                         *)
(* An Array owns a Vec<Point>; a Vec owns a heap buffer.  The heap is       *)
(* modelled explicitly (heap: buffer id -> contents) so that ownership,     *)
(* moves and clones are operations on buffers and not on values.            *)
(* Point coordinates are drawn from a small set of integers (finite f64     *)
(* values on which equality is exact).                                      *)
(*                                                                         *)
(* pt is a Point, line a Line and circle a Circle (paul_lopez::cad), the    *)
(* values the arithmetic operators and the Line and Circle methods work     *)
(* on.  f64 arithmetic is modelled exactly where the results are whole      *)
(* numbers or fractions (products and quotients as fractions in lowest      *)
(* terms, square roots of perfect squares); a square root that is not a     *)
(* whole number is rounded to the nearest of StepsPerUnit steps per unit.          *)
(*                                                                         *)
(* NEXT_ID is the id counter of Shape (a static mut, read and written       *)
(* without synchronisation), and the three COUNTs are the atomic counters   *)
(* of the tracked Point of Level3 Sect2.3 Exercise1.                        *)
(***************************************************************************)
EXTENDS Integers, Sequences, FiniteSets, TLC

VARIABLES heap, a, b, v, status, last, pt, line, circle,
          NEXT_ID, pc, current_id, loaded, created,
          CONSTRUCTOR_COUNT, DESTRUCTOR_COUNT, CLONE_COUNT, tracked

\* the id counter of Shape, the threads calling Shape::new and the Shapes
\* they were given
shape_vars == <<NEXT_ID, pc, current_id, loaded, created>>

\* the counters of the tracked Point and the Points alive
count_vars == <<CONSTRUCTOR_COUNT, DESTRUCTOR_COUNT, CLONE_COUNT, tracked>>

vars == <<heap, a, b, v, status, last, pt, line, circle, shape_vars, count_vars>>

-----------------------------------------------------------------------------
(* Bounds *)

MaxLen == 3

Lens == 0..MaxLen

\* largest numerator and denominator a coordinate of pt takes
MaxCoord == 4

\* indices offered to the indexing operations: in range, n, n + 1
Indices == 0..(MaxLen + 1)

\* every buffer the program can hold at once: a, b, v and the temporary
\* a clone lives in before the value it replaces is dropped
BufIds == 1..4

-----------------------------------------------------------------------------
(* Point *)

Point_new(x, y) == [x |-> x, y |-> y]

Point_default == Point_new(0, 0)

Points == {Point_new(0, 0), Point_new(1, 2)}

\* Points whose pairwise distances are whole numbers (corners of a 3 x 4
\* rectangle)
GeomPoints == {Point_new(0, 0), Point_new(3, 0), Point_new(0, 4), Point_new(3, 4)}

-----------------------------------------------------------------------------
(* f64 values that are not whole numbers: fractions in lowest terms *)

Abs(n) == IF n < 0 THEN -n ELSE n

RECURSIVE Gcd(_, _)
Gcd(m, n) == IF n = 0 THEN m ELSE Gcd(n, m % n)

\* num / den, den # 0
Frac(num, den) ==
    LET g == Gcd(Abs(num), Abs(den))
        sgn == IF den < 0 THEN -1 ELSE 1
    IN [num |-> (sgn * num) \div g, den |-> (sgn * den) \div g]

\* the f64 value of a whole number
Whole(n) == Frac(n, 1)

\* x * y
fmul(x, y) == Frac(x.num * y.num, x.den * y.den)

\* 1.0 / n as f64
recip(n) == Frac(1, n)

\* the same Point, its coordinates as fractions
lift(p) == Point_new(Whole(p.x), Whole(p.y))

\* f64::sqrt, on the perfect squares
sqrt(n) == CHOOSE r \in 0..n : r * r = n

-----------------------------------------------------------------------------
(* Point: distance and the arithmetic operators *)

\* a distance that keeps the signs of the differences and takes no root
distance_signed(self, other) == (self.x - other.x) + (self.y - other.y)

distance(self, other) ==
    LET dx == self.x - other.x
        dy == self.y - other.y
    IN sqrt(dx * dx + dy * dy)

distance_to_origin(self) == sqrt(self.x * self.x + self.y * self.y)

\* impl Mul<f64> for Point
mul(self, factor) == Point_new(fmul(self.x, factor), fmul(self.y, factor))

\* impl Add for Point
add(self, other) == Point_new(self.x + other.x, self.y + other.y)

\* mul_assign scaling x and leaving y
mul_assign_x_only(self, factor) == [self EXCEPT !.x = fmul(@, factor)]

\* impl MulAssign<f64> for Point: the value of self after self *= factor
mul_assign(self, factor) ==
    [self EXCEPT !.x = fmul(@, factor), !.y = fmul(@, factor)]

\* impl Mul<Point> for f64
mul_f64_point(self, point) == mul(point, self)

-----------------------------------------------------------------------------
(* Line *)

Line_new(start, end) == [start |-> start, end |-> end]

Line_default == Line_new(Point_default, Point_default)

\* Line::start
Line_start(self) == self.start

\* Line::end
Line_end(self) == self.end

set_start(self, point) == [self EXCEPT !.start = point]

\* set_end assigning the start field
set_end_start_field(self, point) == [self EXCEPT !.start = point]

set_end(self, point) == [self EXCEPT !.end = point]

\* Line::length
length(self) == distance(self.start, self.end)

-----------------------------------------------------------------------------
(* f64 values that are not fractions: square roots, rounded *)

\* the steps per unit the rounded values are kept to
StepsPerUnit == 1000

\* f64::EPSILON: the step from 1.0 to the next value, in steps
F64_EPSILON == 1

\* the whole part of the square root of n
isqrt(n) == CHOOSE i \in 0..n : i * i <= n /\ n < (i + 1) * (i + 1)

\* the greatest r of lo..hi with (r - 1/2)^2 <= x / 4, found by halving
RECURSIVE nearest(_, _, _)
nearest(lo, hi, x) ==
    IF lo >= hi THEN lo
    ELSE LET mid == (lo + hi + 1) \div 2 IN
         IF (2 * mid - 1) * (2 * mid - 1) <= x
         THEN nearest(mid, hi, x)
         ELSE nearest(lo, mid - 1, x)

\* f64::sqrt, rounded to the nearest step
sqrt_rounded(n) ==
    LET i == isqrt(n)
    IN nearest(i * StepsPerUnit, (i + 1) * StepsPerUnit, 4 * n * StepsPerUnit * StepsPerUnit)

\* Point::distance between any two Points, in steps
distance_rounded(self, other) ==
    LET dx == self.x - other.x
        dy == self.y - other.y
    IN sqrt_rounded(dx * dx + dy * dy)

-----------------------------------------------------------------------------
(* Line: slope and contains_point *)

\* slope looking at dy where the code looks at dx
slope_tests_dy(self) ==
    LET dx == self.end.x - self.start.x
        dy == self.end.y - self.start.y
    IN IF Abs(dy) * StepsPerUnit < F64_EPSILON THEN [tag |-> "none"]
       ELSE [tag |-> "some", val |-> Frac(dy, dx)]

\* Line::slope
slope(self) ==
    LET dx == self.end.x - self.start.x
        dy == self.end.y - self.start.y
    IN IF Abs(dx) * StepsPerUnit < F64_EPSILON THEN [tag |-> "none"]
       ELSE [tag |-> "some", val |-> Frac(dy, dx)]

\* the tolerance of contains_point, in steps: as in the code, far above the
\* rounding of three square roots and far below the detour through any
\* Point off the segment
EPSILON == 4

\* contains_point comparing the distance to the start alone
contains_point_start_only(self, point) ==
    LET dist_to_start == distance_rounded(self.start, point)
        line_length == distance_rounded(self.start, self.end)
    IN Abs(dist_to_start - line_length) < EPSILON

\* Line::contains_point
contains_point(self, point) ==
    LET dist_to_start == distance_rounded(self.start, point)
        dist_to_end == distance_rounded(self.end, point)
        line_length == distance_rounded(self.start, self.end)
    IN Abs(dist_to_start + dist_to_end - line_length) < EPSILON

-----------------------------------------------------------------------------
(* Circle *)

Circle_new(center, radius) == [center |-> center, radius |-> radius]

\* Circle::unit_circle
unit_circle == Circle_new(Point_default, 1)

\* impl Default for Circle
Circle_default == unit_circle

\* contains_point leaving the boundary out
Circle_contains_point_strict(self, point) ==
    distance_rounded(self.center, point) < self.radius * StepsPerUnit

\* Circle::contains_point
Circle_contains_point(self, point) ==
    distance_rounded(self.center, point) <= self.radius * StepsPerUnit

\* intersects without the test against the difference of the radii
intersects_sum_only(self, other) ==
    LET center_distance == distance_rounded(self.center, other.center)
        radius_sum == (self.radius + other.radius) * StepsPerUnit
    IN center_distance <= radius_sum

\* Circle::intersects
intersects(self, other) ==
    LET center_distance == distance_rounded(self.center, other.center)
        radius_sum == (self.radius + other.radius) * StepsPerUnit
        radius_diff == Abs(self.radius - other.radius) * StepsPerUnit
    IN center_distance >= radius_diff /\ center_distance <= radius_sum

\* translate moving the center along x only
translate_x_only(self, offset) ==
    Circle_new(Point_new(self.center.x + offset.x, self.center.y), self.radius)

\* Circle::translate (Level4 Sect2.4 Exercise2)
translate(self, offset) == Circle_new(add(self.center, offset), self.radius)

\* Circle::scale
scale(self, factor) == Circle_new(self.center, self.radius * factor)

-----------------------------------------------------------------------------
(* Shape *)

\* the threads that call Shape::new
Threads == {1, 2}

\* the most Shapes made between two resets of the counter
MaxShapes == 3

ShapeNames == {"Triangle", "Rectangle"}

\* a Shape given the counter after the increment
Shape_new_incremented(name, id) == [name |-> name, id |-> id + 1, visible |-> TRUE]

\* the Shape that Shape::new builds from its name and current_id
Shape_new(name, id) == [name |-> name, id |-> id, visible |-> TRUE]

\* Shape::id
Shape_id(self) == self.id

\* Shape::copy_with_name: a clone with the name replaced
copy_with_name(self, new_name) == [self EXCEPT !.name = new_name]

-----------------------------------------------------------------------------
(* The tracked Point of Level3 Sect2.3 Exercise1 *)

\* the most the constructor count is followed to between two resets
MaxCount == 3

\* AtomicUsize::fetch_add(1, SeqCst): the value stored
fetch_add(count) == count + 1

\* Point { x, y, id }; since_reset is not a field: it tells whether the
\* Point was created after the counters were last reset
Tracked_new(x, y, id) == [x |-> x, y |-> y, id |-> id, since_reset |-> TRUE]

\* the sequence without its i-th element
Without(seq, i) == SubSeq(seq, 1, i - 1) \o SubSeq(seq, i + 1, Len(seq))

\* print_statistics: constructors - destructors on usize; below zero the
\* subtraction overflows, a panic with overflow checks and a wrapped value
\* without them
objects_still_alive(constructors, destructors) ==
    IF constructors >= destructors
    THEN {[tag |-> "ok", val |-> constructors - destructors]}
    ELSE {[tag |-> "panic"], [tag |-> "wrapped", below |-> destructors - constructors]}

-----------------------------------------------------------------------------
(* Results of calls *)

Ok(p) == [tag |-> "ok", val |-> p]

Some(p) == [tag |-> "some", val |-> p]

None == [tag |-> "none"]

Unit == [tag |-> "unit"]

Panic == [tag |-> "panic"]

-----------------------------------------------------------------------------
(* std::vec::Vec<Point>, by value of its contents; index i of the code is   *)
(* position i + 1 of the sequence                                           *)

\* v[i]: the slot, or the bounds-check panic of the standard library
vec_index(data, i) == IF i < Len(data) THEN Ok(data[i + 1]) ELSE Panic

vec_push(data, point) == Append(data, point)

vec_pop(data) ==
    IF data = <<>>
    THEN [ret |-> None, data |-> data]
    ELSE [ret |-> Some(data[Len(data)]), data |-> SubSeq(data, 1, Len(data) - 1)]

vec_resize(data, new_len, value) ==
    IF new_len <= Len(data)
    THEN SubSeq(data, 1, new_len)
    ELSE data \o [i \in 1..(new_len - Len(data)) |-> value]

vec_clear(data) == <<>>

vec_macro(value, n) == [i \in 1..n |-> value]

-----------------------------------------------------------------------------
(* Array, methods on the contents of its data field *)

\* with_size reserving room for size Points and storing none
with_size_reserve_only(size) == <<>>

with_size(size) == vec_macro(Point_default, size)

\* containers::DEFAULT_CAPACITY
DEFAULT_CAPACITY == 10

\* Array::new
Array_new == with_size(DEFAULT_CAPACITY)

\* impl Default for Array
Array_default == Array_new

size(data) == Len(data)

is_empty(data) == Len(data) = 0

\* set_element redirecting an out-of-range write to slot 0, as index_mut does
set_element_fallback(data, idx, point) ==
    IF idx < Len(data) THEN [data EXCEPT ![idx + 1] = point]
    ELSE IF Len(data) > 0 THEN [data EXCEPT ![1] = point] ELSE data

\* the new contents
set_element(data, idx, point) ==
    IF idx < Len(data) THEN [data EXCEPT ![idx + 1] = point] ELSE data

\* get_element clamping an out-of-range index to the last slot
get_element_clamped(data, idx) ==
    IF idx < Len(data) THEN vec_index(data, idx)
    ELSE IF Len(data) = 0 THEN Panic ELSE vec_index(data, Len(data) - 1)

get_element(data, idx) ==
    IF idx < Len(data) THEN vec_index(data, idx) ELSE vec_index(data, 0)

index(data, idx) ==
    IF idx < Len(data) THEN vec_index(data, idx) ELSE vec_index(data, 0)

\* index_mut clamping an out-of-range index to the last slot
index_mut_clamped(data, idx) ==
    IF idx < Len(data) THEN [tag |-> "slot", at |-> idx]
    ELSE IF Len(data) > 0 THEN [tag |-> "slot", at |-> Len(data) - 1] ELSE Panic

\* the slot the mutable reference designates (as an index), or the panic
index_mut(data, idx) ==
    IF idx < Len(data)
    THEN (IF vec_index(data, idx).tag = "ok" THEN [tag |-> "slot", at |-> idx] ELSE Panic)
    ELSE (IF vec_index(data, 0).tag = "ok" THEN [tag |-> "slot", at |-> 0] ELSE Panic)

clear(data) == vec_clear(data)

\* push inserting at the front
push_front(data, point) == <<point>> \o data

push(data, point) == vec_push(data, point)

\* pop returning the last element without removing it
pop_peek(data) == [ret |-> vec_pop(data).ret, data |-> data]

\* pop taking the first element instead of the last
pop_first(data) ==
    IF data = <<>>
    THEN [ret |-> None, data |-> data]
    ELSE [ret |-> Some(data[1]), data |-> SubSeq(data, 2, Len(data))]

pop(data) == vec_pop(data)

\* resize that only grows
resize_never_shrinks(data, new_size) ==
    IF new_size > Len(data) THEN vec_resize(data, new_size, Point_default) ELSE data

\* resize allocating new_size default Points without copying the old ones
resize_fresh(data, new_size) == vec_macro(Point_default, new_size)

resize(data, new_size) == vec_resize(data, new_size, Point_default)

-----------------------------------------------------------------------------
(* Array, the geometric queries *)

\* Iterator::sum of a sequence of numbers
RECURSIVE sum(_)
sum(numbers) == IF numbers = <<>> THEN 0 ELSE Head(numbers) + sum(Tail(numbers))

\* slice::windows(2): every pair of neighbours
windows2(data) == [i \in 1..(Len(data) - 1) |-> <<data[i], data[i + 1]>>]

\* slice::chunks(2) without the odd one left over: pairs that do not overlap
chunks2(data) == [i \in 1..(Len(data) \div 2) |-> <<data[2 * i - 1], data[2 * i]>>]

\* total_path_distance over pairs that do not overlap
total_path_distance_chunks(data) ==
    IF Len(data) < 2 THEN 0
    ELSE sum([i \in 1..Len(chunks2(data)) |->
                distance(chunks2(data)[i][1], chunks2(data)[i][2])])

total_path_distance(data) ==
    IF Len(data) < 2 THEN 0
    ELSE sum([i \in 1..Len(windows2(data)) |->
                distance(windows2(data)[i][1], windows2(data)[i][2])])

\* f64::partial_cmp on numbers that are not NaN
partial_cmp(x, y) == IF x < y THEN "Less" ELSE IF x = y THEN "Equal" ELSE "Greater"

\* a fold that keeps the first of equal maxima: the pair kept so far is
\* replaced only by one it compares Less than
RECURSIVE max_by_fold_first(_, _, _)
max_by_fold_first(data, best, i) ==
    IF i >= Len(data) THEN best
    ELSE LET x == <<i, data[i + 1]>> IN
         IF partial_cmp(distance_to_origin(best[2]), distance_to_origin(x[2])) = "Less"
         THEN max_by_fold_first(data, x, i + 1)
         ELSE max_by_fold_first(data, best, i + 1)

\* Iterator::max_by over enumerate(): the pair kept so far is replaced by
\* the next one unless it compares Greater
RECURSIVE max_by_fold(_, _, _)
max_by_fold(data, best, i) ==
    IF i >= Len(data) THEN best
    ELSE LET x == <<i, data[i + 1]>> IN
         IF partial_cmp(distance_to_origin(best[2]), distance_to_origin(x[2])) = "Greater"
         THEN max_by_fold(data, best, i + 1)
         ELSE max_by_fold(data, x, i + 1)

\* the comparison turned round: the nearest Point
RECURSIVE min_by_fold(_, _, _)
min_by_fold(data, best, i) ==
    IF i >= Len(data) THEN best
    ELSE LET x == <<i, data[i + 1]>> IN
         IF partial_cmp(distance_to_origin(x[2]), distance_to_origin(best[2])) = "Greater"
         THEN min_by_fold(data, best, i + 1)
         ELSE min_by_fold(data, x, i + 1)

farthest_from_origin_reversed(data) ==
    IF data = <<>> THEN None ELSE Some(min_by_fold(data, <<0, data[1]>>, 1))

\* Some((index, point)) or None
farthest_from_origin(data) ==
    IF data = <<>> THEN None ELSE Some(max_by_fold(data, <<0, data[1]>>, 1))

\* Iterator::fold(Point::new(0.0, 0.0), |acc, &p| acc + p)
RECURSIVE fold_add(_, _)
fold_add(acc, data) ==
    IF data = <<>> THEN acc ELSE fold_add(add(acc, Head(data)), Tail(data))

\* centroid without the division
centroid_sum(data) ==
    IF is_empty(data) THEN lift(Point_default)
    ELSE lift(fold_add(Point_new(0, 0), data))

centroid(data) ==
    IF is_empty(data) THEN lift(Point_default)
    ELSE mul(lift(fold_add(Point_new(0, 0), data)), recip(Len(data)))

-----------------------------------------------------------------------------
(* Ownership: heap buffers, the Array struct, Clone, From *)

FreeCell == [used |-> FALSE, elems |-> <<>>]

Cell(data) == [used |-> TRUE, elems |-> data]

\* an Array value: its data field names the buffer its Vec owns
Array(id) == [data |-> id]

\* a variable holding no Array (moved out of)
NoArray == Array(0)

NoVec == 0

\* the allocator hands out a buffer no live value owns
Fresh(h) == CHOOSE id \in BufIds : ~h[id].used /\ \A j \in BufIds : j < id => h[j].used

\* dropping a Vec releases its buffer
drop(h, id) == IF id = 0 THEN h ELSE [h EXCEPT ![id] = FreeCell]

\* a clone sharing the buffer of the original
clone_shallow(h, arr) == [arr |-> arr, heap |-> h]

\* a clone of the same length holding default Points
clone_sized(h, arr) ==
    [arr |-> Array(Fresh(h)),
     heap |-> [h EXCEPT ![Fresh(h)] =
                 Cell(vec_macro(Point_default, Len(h[arr.data].elems)))]]

\* #[derive(Clone)]: Vec::clone copies the elements into a new buffer
clone(h, arr) ==
    [arr |-> Array(Fresh(h)), heap |-> [h EXCEPT ![Fresh(h)] = Cell(h[arr.data].elems)]]

\* from_vec keeping the length of the Vec and not its elements
from_vec_sized(h, points) ==
    [arr |-> Array(points),
     heap |-> [h EXCEPT ![points].elems = vec_macro(Point_default, Len(h[points].elems))]]

\* the Array takes over the buffer of the Vec it is given
from_vec(h, points) == [arr |-> Array(points), heap |-> h]

\* impl From<Vec<Point>> for Array
Array_from(h, vec) == from_vec(h, vec)

\* impl From<Array> for Vec<Point>
Vec_from(array) == array.data

\* impl PartialEq for Array: self.data == other.data
eq(h, self, other) == h[self.data].elems = h[other.data].elems

-----------------------------------------------------------------------------
(* State *)

Targets == {"a", "b"}

Arr(t) == IF t = "a" THEN a ELSE b

Live(t) == Arr(t).data # 0

\* the contents of the Array held by variable t
Data(t) == heap[Arr(t).data].elems

\* record of the last call: its name, receiver, arguments, the receiver's
\* contents before it, what it returned, and for a conversion the sequence
\* that entered Array::from; for a pop that follows a push on the same
\* Array, the Point pushed and the contents before the push
Call(op, t, idx, point, pre, ret, src) ==
    [op |-> op, target |-> t, idx |-> idx, point |-> point, pre |-> pre, ret |-> ret,
     src |-> src]

NoSrc == [valid |-> FALSE, elems |-> <<>>]

Running == status = "running"

Store(t, data) == heap' = [heap EXCEPT ![Arr(t).data].elems = data]

\* a = Array::with_size(n), nothing else built yet
ArrayInit(n) ==
    /\ heap = [id \in BufIds |-> IF id = 1 THEN Cell(with_size(n)) ELSE FreeCell]
    /\ a = Array(1)
    /\ b = NoArray
    /\ v = NoVec
    /\ status = "running"
    /\ last = Call("with_size", "a", n, Point_default, <<>>, Unit, NoSrc)

\* pt = Point::default(), line = Line::default(), circle = Circle::default();
\* the statics hold their initialisers and no thread is inside Shape::new
ValuesInit ==
    /\ pt = lift(Point_default)
    /\ line = Line_default
    /\ circle = Circle_default
    /\ NEXT_ID = 1
    /\ pc = [t \in Threads |-> "idle"]
    /\ current_id = [t \in Threads |-> 0]
    /\ loaded = [t \in Threads |-> 0]
    /\ created = <<>>
    /\ CONSTRUCTOR_COUNT = 0
    /\ DESTRUCTOR_COUNT = 0
    /\ CLONE_COUNT = 0
    /\ tracked = <<>>

Init == (\E n \in Lens : ArrayInit(n)) /\ ValuesInit

-----------------------------------------------------------------------------
(* Constructors, conversions and Clone *)

\* a = Array::with_size(n): the new value is built, then the old one dropped
WithSize(n) ==
    /\ Running
    /\ LET id == Fresh(heap) IN
        /\ heap' = drop([heap EXCEPT ![id] = Cell(with_size(n))], a.data)
        /\ a' = Array(id)
    /\ last' = Call("with_size", "a", n, Point_default, <<>>, Unit, NoSrc)
    /\ UNCHANGED <<b, v, status, pt, line, circle, shape_vars, count_vars>>

\* a = Array::new() and a = Array::default()
Construct(op, data) ==
    /\ Running
    /\ LET id == Fresh(heap) IN
        /\ heap' = drop([heap EXCEPT ![id] = Cell(data)], a.data)
        /\ a' = Array(id)
    /\ last' = Call(op, "a", 0, Point_default, <<>>, Unit, NoSrc)
    /\ UNCHANGED <<b, v, status, pt, line, circle, shape_vars, count_vars>>

New == Construct("new", Array_new)

Default == Construct("default", Array_default)

\* v = vec![...]
NewVec(points) ==
    /\ Running
    /\ LET id == Fresh(heap) IN
        /\ heap' = drop([heap EXCEPT ![id] = Cell(points)], v)
        /\ v' = id
    /\ last' = Call("vec", "a", 0, Point_default, <<>>, Unit, NoSrc)
    /\ UNCHANGED <<a, b, status, pt, line, circle, shape_vars, count_vars>>

\* a = Array::from(v): v is moved into the Array
FromVec ==
    /\ Running
    /\ v # NoVec
    /\ LET r == Array_from(heap, v) IN
        /\ heap' = drop(r.heap, a.data)
        /\ a' = r.arr
    /\ v' = NoVec
    /\ last' = Call("from", "a", 0, Point_default, <<>>, Unit,
                    [valid |-> TRUE, elems |-> heap[v].elems])
    /\ UNCHANGED <<b, status, pt, line, circle, shape_vars, count_vars>>

\* v = Vec::from(a): a is moved out of
IntoVec ==
    /\ Running
    /\ Live("a")
    /\ LET id == Vec_from(a) IN
        /\ heap' = drop(heap, v)
        /\ v' = id
    /\ a' = NoArray
    /\ last' = Call("into", "a", 0, Point_default, Data("a"), Unit,
                    IF last.op = "from" THEN last.src ELSE NoSrc)
    /\ UNCHANGED <<b, status, pt, line, circle, shape_vars, count_vars>>

\* t = s.clone(), s = t included: the clone is built, then the old t dropped;
\* the record keeps the contents of s and the size t had
Clone(s, t) ==
    /\ Running
    /\ Live(s)
    /\ LET r == clone(heap, Arr(s)) IN
        /\ heap' = drop(r.heap, Arr(t).data)
        /\ IF t = "a" THEN a' = r.arr /\ b' = b ELSE b' = r.arr /\ a' = a
    /\ last' = Call("clone", t, IF Live(t) THEN size(Data(t)) ELSE 0, Point_default,
                    Data(s), Unit, NoSrc)
    /\ UNCHANGED <<v, status, pt, line, circle, shape_vars, count_vars>>

-----------------------------------------------------------------------------
(* Methods that write *)

SetElement(t, idx, point) ==
    /\ Running
    /\ Live(t)
    /\ Store(t, set_element(Data(t), idx, point))
    /\ last' = Call("set_element", t, idx, point, Data(t), Unit, NoSrc)
    /\ UNCHANGED <<a, b, v, status, pt, line, circle, shape_vars, count_vars>>

\* t[idx] = point
IndexAssign(t, idx, point) ==
    /\ Running
    /\ Live(t)
    /\ LET slot == index_mut(Data(t), idx) IN
        IF slot.tag = "slot"
        THEN /\ Store(t, [Data(t) EXCEPT ![slot.at + 1] = point])
             /\ last' = Call("index_mut", t, idx, point, Data(t), Unit, NoSrc)
             /\ UNCHANGED status
        ELSE /\ status' = "panicked"
             /\ last' = Call("index_mut", t, idx, point, Data(t), Panic, NoSrc)
             /\ UNCHANGED heap
    /\ UNCHANGED <<a, b, v, pt, line, circle, shape_vars, count_vars>>

Push(t, point) ==
    /\ Running
    /\ Live(t)
    /\ Len(Data(t)) < MaxLen
    /\ Store(t, push(Data(t), point))
    /\ last' = Call("push", t, 0, point, Data(t), Unit, NoSrc)
    /\ UNCHANGED <<a, b, v, status, pt, line, circle, shape_vars, count_vars>>

Pop(t) ==
    /\ Running
    /\ Live(t)
    /\ LET r == pop(Data(t)) IN
        /\ Store(t, r.data)
        /\ last' = IF last.op = "push" /\ last.target = t
                   THEN Call("pop", t, 0, last.point, Data(t), r.ret,
                             [valid |-> TRUE, elems |-> last.pre])
                   ELSE Call("pop", t, 0, Point_default, Data(t), r.ret, NoSrc)
    /\ UNCHANGED <<a, b, v, status, pt, line, circle, shape_vars, count_vars>>

Resize(t, new_size) ==
    /\ Running
    /\ Live(t)
    /\ Store(t, resize(Data(t), new_size))
    /\ last' = Call("resize", t, new_size, Point_default, Data(t), Unit, NoSrc)
    /\ UNCHANGED <<a, b, v, status, pt, line, circle, shape_vars, count_vars>>

Clear(t) ==
    /\ Running
    /\ Live(t)
    /\ Store(t, clear(Data(t)))
    /\ last' = Call("clear", t, 0, Point_default, Data(t), Unit, NoSrc)
    /\ UNCHANGED <<a, b, v, status, pt, line, circle, shape_vars, count_vars>>

-----------------------------------------------------------------------------
(* Methods that read *)

Read(op, t, idx, r) ==
    /\ last' = Call(op, t, idx, Point_default, Data(t), r, NoSrc)
    /\ status' = IF r = Panic THEN "panicked" ELSE status
    /\ UNCHANGED <<heap, a, b, v, pt, line, circle, shape_vars, count_vars>>

GetElement(t, idx) ==
    /\ Running
    /\ Live(t)
    /\ Read("get_element", t, idx, get_element(Data(t), idx))

\* t[idx] as a value
IndexRead(t, idx) ==
    /\ Running
    /\ Live(t)
    /\ Read("index", t, idx, index(Data(t), idx))

-----------------------------------------------------------------------------

(* One Array, built by with_size and worked on through every method.  The   *)
(* states of a are all the Arrays of at most MaxLen Points, those that      *)
(* Array::from builds included.                                            *)

Next ==
    \/ \E n \in Lens : WithSize(n)
    \/ New
    \/ Default
    \/ \E idx \in Indices, point \in Points : SetElement("a", idx, point)
    \/ \E idx \in Indices, point \in Points : IndexAssign("a", idx, point)
    \/ \E point \in Points : Push("a", point)
    \/ Pop("a")
    \/ \E new_size \in Lens : Resize("a", new_size)
    \/ Clear("a")
    \/ \E idx \in Indices : GetElement("a", idx)
    \/ \E idx \in Indices : IndexRead("a", idx)

Spec == Init /\ [][Next]_vars

(* Two Arrays, b a clone of a, each written through every method *)

NextClone ==
    \/ Clone("a", "b")
    \/ \E t \in Targets, idx \in Indices, point \in Points : SetElement(t, idx, point)
    \/ \E t \in Targets, idx \in Indices, point \in Points : IndexAssign(t, idx, point)
    \/ \E t \in Targets, point \in Points : Push(t, point)
    \/ \E t \in Targets : Pop(t)
    \/ \E t \in Targets, new_size \in Lens : Resize(t, new_size)
    \/ \E t \in Targets : Clear(t)

SpecClone == Init /\ [][NextClone]_vars

(* Two Arrays assigned clones of each other and of themselves *)

NextAssign ==
    \/ \E s \in Targets, t \in Targets : Clone(s, t)
    \/ \E t \in Targets, idx \in Indices, point \in Points : SetElement(t, idx, point)
    \/ \E t \in Targets, new_size \in Lens : Resize(t, new_size)

SpecAssign == Init /\ [][NextAssign]_vars

(* An Array and a Vec, converted into each other *)

NextConv ==
    \/ \E n \in Lens : \E points \in [1..n -> Points] : NewVec(points)
    \/ FromVec
    \/ IntoVec
    \/ \E n \in Lens : WithSize(n)
    \/ \E idx \in Indices, point \in Points : SetElement("a", idx, point)
    \/ \E point \in Points : Push("a", point)
    \/ Pop("a")

SpecConv == Init /\ [][NextConv]_vars

-----------------------------------------------------------------------------
(* An Array of Points built by Array::from, and its geometric queries *)

Centroid ==
    /\ Running
    /\ Live("a")
    /\ Read("centroid", "a", 0, Ok(centroid(Data("a"))))

FarthestFromOrigin ==
    /\ Running
    /\ Live("a")
    /\ Read("farthest_from_origin", "a", 0, farthest_from_origin(Data("a")))

TotalPathDistance ==
    /\ Running
    /\ Live("a")
    /\ Read("total_path_distance", "a", 0, Ok(total_path_distance(Data("a"))))

\* a = Array::from(vec![...])
InitGeom ==
    /\ \E n \in Lens : \E points \in [1..n -> GeomPoints] :
         /\ heap = [id \in BufIds |-> IF id = 1 THEN Cell(points) ELSE FreeCell]
         /\ last = Call("from", "a", 0, Point_default, <<>>, Unit,
                        [valid |-> TRUE, elems |-> points])
    /\ a = Array(1)
    /\ b = NoArray
    /\ v = NoVec
    /\ status = "running"
    /\ ValuesInit

NextGeom ==
    \/ Centroid
    \/ FarthestFromOrigin
    \/ TotalPathDistance
    \/ \E idx \in Indices, point \in GeomPoints : SetElement("a", idx, point)

SpecGeom == InitGeom /\ [][NextGeom]_vars

-----------------------------------------------------------------------------
(* An Array in which distinct Points are equally far from the origin *)

\* the origin, a nearer Point, and two Points at the same distance
TiePoints == {Point_new(0, 0), Point_new(3, 0), Point_new(MaxCoord, 0),
              Point_new(0, MaxCoord)}

\* a = Array::from(vec![...])
InitTie ==
    /\ \E n \in Lens : \E points \in [1..n -> TiePoints] :
         /\ heap = [id \in BufIds |-> IF id = 1 THEN Cell(points) ELSE FreeCell]
         /\ last = Call("from", "a", 0, Point_default, <<>>, Unit,
                        [valid |-> TRUE, elems |-> points])
    /\ a = Array(1)
    /\ b = NoArray
    /\ v = NoVec
    /\ status = "running"
    /\ ValuesInit

NextTie ==
    \/ FarthestFromOrigin
    \/ \E idx \in Indices, point \in TiePoints : SetElement("a", idx, point)

SpecTie == InitTie /\ [][NextTie]_vars

-----------------------------------------------------------------------------
(* A Point under the arithmetic operators, and distances between Points *)

\* the factors offered to the operators
Scalars == {Whole(0), Whole(2), Whole(-1), Frac(1, 2), Frac(3, 2)}

InRange(p) ==
    /\ Abs(p.x.num) <= MaxCoord /\ p.x.den <= MaxCoord
    /\ Abs(p.y.num) <= MaxCoord /\ p.y.den <= MaxCoord

\* pt = Point::new(x, y)
PointNew(x, y) ==
    /\ pt' = lift(Point_new(x, y))
    /\ last' = Call("point_new", "pt", Whole(0), pt', <<>>, Unit, NoSrc)
    /\ UNCHANGED <<heap, a, b, v, status, line, circle, shape_vars, count_vars>>

\* pt * k
Mul(k) ==
    /\ last' = Call("mul", "pt", k, pt, <<>>, Ok(mul(pt, k)), NoSrc)
    /\ UNCHANGED <<heap, a, b, v, status, pt, line, circle, shape_vars, count_vars>>

\* k * pt
F64Mul(k) ==
    /\ last' = Call("f64_mul", "pt", k, pt, <<>>, Ok(mul_f64_point(k, pt)), NoSrc)
    /\ UNCHANGED <<heap, a, b, v, status, pt, line, circle, shape_vars, count_vars>>

\* pt *= k
MulAssign(k) ==
    /\ InRange(mul_assign(pt, k))
    /\ pt' = mul_assign(pt, k)
    /\ last' = Call("mul_assign", "pt", k, pt, <<>>, Unit, NoSrc)
    /\ UNCHANGED <<heap, a, b, v, status, line, circle, shape_vars, count_vars>>

\* p.distance(&q)
Distance(p, q) ==
    /\ last' = Call("distance", "pt", q, p, <<>>, Ok(distance(p, q)), NoSrc)
    /\ UNCHANGED <<heap, a, b, v, status, pt, line, circle, shape_vars, count_vars>>

InitPoint == ArrayInit(0) /\ ValuesInit

NextPoint ==
    \/ \E x \in 0..2, y \in 0..2 : PointNew(x, y)
    \/ \E k \in Scalars : Mul(k)
    \/ \E k \in Scalars : F64Mul(k)
    \/ \E k \in Scalars : MulAssign(k)
    \/ \E p \in GeomPoints, q \in GeomPoints : Distance(p, q)

SpecPoint == InitPoint /\ [][NextPoint]_vars

-----------------------------------------------------------------------------
(* A Line, its endpoints set and its length asked for *)

\* line = Line::new(p, q)
LineNew(p, q) ==
    /\ line' = Line_new(p, q)
    /\ last' = Call("line_new", "line", 0, p, line, Unit, NoSrc)
    /\ UNCHANGED <<heap, a, b, v, status, pt, circle, shape_vars, count_vars>>

SetStart(p) ==
    /\ line' = set_start(line, p)
    /\ last' = Call("set_start", "line", 0, p, line, Unit, NoSrc)
    /\ UNCHANGED <<heap, a, b, v, status, pt, circle, shape_vars, count_vars>>

SetEnd(p) ==
    /\ line' = set_end(line, p)
    /\ last' = Call("set_end", "line", 0, p, line, Unit, NoSrc)
    /\ UNCHANGED <<heap, a, b, v, status, pt, circle, shape_vars, count_vars>>

\* line.length(); when it follows set_start (idx 1) or set_end (idx 2) the
\* record keeps the Point that was set and the Line before it was set
Length ==
    /\ last' = IF last.op = "set_start"
               THEN Call("length", "line", 1, last.point, line, Ok(length(line)),
                         [valid |-> TRUE, elems |-> <<last.pre>>])
               ELSE IF last.op = "set_end"
               THEN Call("length", "line", 2, last.point, line, Ok(length(line)),
                         [valid |-> TRUE, elems |-> <<last.pre>>])
               ELSE Call("length", "line", 0, Point_default, line, Ok(length(line)), NoSrc)
    /\ UNCHANGED <<heap, a, b, v, status, pt, line, circle, shape_vars, count_vars>>

InitLine == ArrayInit(0) /\ ValuesInit

NextLine ==
    \/ \E p \in GeomPoints, q \in GeomPoints : LineNew(p, q)
    \/ \E p \in GeomPoints : SetStart(p)
    \/ \E p \in GeomPoints : SetEnd(p)
    \/ Length

SpecLine == InitLine /\ [][NextLine]_vars

-----------------------------------------------------------------------------
(* A Line between any two Points of a grid, asked for its slope and whether *)
(* it contains a Point                                                      *)

\* the Points of the grid: every x up to MaxCoord on three rows
SegPoints == {Point_new(x, y) : x \in 0..MaxCoord, y \in 0..2}

\* line.contains_point(&p)
ContainsPoint(p) ==
    /\ last' = Call("contains_point", "line", 0, p, line, Ok(contains_point(line, p)), NoSrc)
    /\ UNCHANGED <<heap, a, b, v, status, pt, line, circle, shape_vars, count_vars>>

\* line.slope()
Slope ==
    /\ last' = Call("slope", "line", 0, Point_default, line, slope(line), NoSrc)
    /\ UNCHANGED <<heap, a, b, v, status, pt, line, circle, shape_vars, count_vars>>

InitSeg == ArrayInit(0) /\ ValuesInit

NextSeg ==
    \/ \E p \in SegPoints : SetStart(p)
    \/ \E p \in SegPoints : SetEnd(p)
    \/ \E p \in SegPoints : ContainsPoint(p)
    \/ Slope

SpecSeg == InitSeg /\ [][NextSeg]_vars

-----------------------------------------------------------------------------
(* A Circle asked whether it contains a Point or meets another Circle, and  *)
(* translated and scaled                                                    *)

\* the centers offered
Centers == {Point_new(0, 0), Point_new(1, 2), Point_new(MaxCoord, 0)}

\* the radii offered: 0, a zero-radius circle, up to MaxCoord + 1
Radii == 0..(MaxCoord + 1)

\* the Points a Circle is asked about
ProbePoints == {Point_new(x, y) : x \in 0..(MaxCoord + 2), y \in 0..MaxCoord}

\* the factors offered to scale
Factors == {0, 1, 2}

\* circle = Circle::new(center, radius)
CircleNew(center, radius) ==
    /\ circle' = Circle_new(center, radius)
    /\ last' = Call("circle_new", "circle", radius, center, <<>>, Unit, NoSrc)
    /\ UNCHANGED <<heap, a, b, v, status, pt, line, shape_vars, count_vars>>

\* circle.contains_point(&p)
CircleContainsPoint(p) ==
    /\ last' = Call("circle_contains_point", "circle", 0, p, circle,
                    Ok(Circle_contains_point(circle, p)), NoSrc)
    /\ UNCHANGED <<heap, a, b, v, status, pt, line, circle, shape_vars, count_vars>>

\* circle.intersects(&Circle::new(center, radius))
Intersects(center, radius) ==
    /\ last' = Call("intersects", "circle", radius, center, circle,
                    Ok(intersects(circle, Circle_new(center, radius))), NoSrc)
    /\ UNCHANGED <<heap, a, b, v, status, pt, line, circle, shape_vars, count_vars>>

\* circle.translate(offset): &self, the Circle it returns is the result
Translate(offset) ==
    /\ last' = Call("translate", "circle", 0, offset, circle,
                    Ok(translate(circle, offset)), NoSrc)
    /\ UNCHANGED <<heap, a, b, v, status, pt, line, circle, shape_vars, count_vars>>

\* circle.scale(factor): &self, the Circle it returns is the result
ScaleBy(factor) ==
    /\ last' = Call("scale", "circle", factor, Point_default, circle,
                    Ok(scale(circle, factor)), NoSrc)
    /\ UNCHANGED <<heap, a, b, v, status, pt, line, circle, shape_vars, count_vars>>

InitCircle == ArrayInit(0) /\ ValuesInit

NextCircle ==
    \/ \E c \in Centers, r \in Radii : CircleNew(c, r)
    \/ \E p \in ProbePoints : CircleContainsPoint(p)
    \/ \E c \in Centers, r \in Radii : Intersects(c, r)
    \/ \E p \in Points : Translate(p)
    \/ \E f \in Factors : ScaleBy(f)

SpecCircle == InitCircle /\ [][NextCircle]_vars

-----------------------------------------------------------------------------
(* Shape::new and the id counter.  NEXT_ID is a static mut: Shape::new      *)
(* reads it into current_id, reads it again to add 1 and writes the sum,    *)
(* three steps between which another thread can run.  created holds the     *)
(* Shapes that Shape::new returned since the counter was last reset.        *)

\* let current_id = NEXT_ID; the model stops making Shapes at MaxShapes
NewLoad(t) ==
    /\ pc[t] = "idle"
    /\ Len(created) < MaxShapes
    /\ NEXT_ID <= MaxShapes
    /\ current_id' = [current_id EXCEPT ![t] = NEXT_ID]
    /\ pc' = [pc EXCEPT ![t] = "loaded"]
    /\ UNCHANGED <<heap, a, b, v, status, last, pt, line, circle, NEXT_ID, loaded,
                   created, count_vars>>

\* NEXT_ID += 1, the read; the counter is followed up to MaxShapes + 2
NewReload(t) ==
    /\ pc[t] = "loaded"
    /\ NEXT_ID <= MaxShapes + 1
    /\ loaded' = [loaded EXCEPT ![t] = NEXT_ID]
    /\ pc' = [pc EXCEPT ![t] = "read"]
    /\ UNCHANGED <<heap, a, b, v, status, last, pt, line, circle, NEXT_ID, current_id,
                   created, count_vars>>

\* NEXT_ID += 1, the write; then Shape { name, id, visible: true } is returned
NewStore(t, name) ==
    /\ pc[t] = "read"
    /\ NEXT_ID' = loaded[t] + 1
    /\ pc' = [pc EXCEPT ![t] = "idle"]
    /\ created' = Append(created, Shape_new(name, current_id[t]))
    /\ last' = Call("shape_new", "shape", t, Point_default, <<>>,
                    Ok(Shape_new(name, current_id[t])), NoSrc)
    /\ UNCHANGED <<heap, a, b, v, status, pt, line, circle, current_id, loaded,
                   count_vars>>

\* Shape::next_available_id()
NextAvailableId(t) ==
    /\ pc[t] = "idle"
    /\ last' = Call("next_available_id", "shape", t, Point_default, <<>>, Ok(NEXT_ID), NoSrc)
    /\ UNCHANGED <<heap, a, b, v, status, pt, line, circle, shape_vars, count_vars>>

\* Shape::reset_id_counter()
ResetIdCounter(t) ==
    /\ pc[t] = "idle"
    /\ NEXT_ID' = 1
    /\ created' = <<>>
    /\ last' = Call("reset_id_counter", "shape", t, Point_default, <<>>, Unit, NoSrc)
    /\ UNCHANGED <<heap, a, b, v, status, pt, line, circle, pc, current_id, loaded,
                   count_vars>>

\* created[i].copy_with_name(new_name); idx is NEXT_ID before the call
CopyWithName(t, i, new_name) ==
    /\ pc[t] = "idle"
    /\ i \in 1..Len(created)
    /\ last' = Call("copy_with_name", "shape", NEXT_ID, Point_default, created[i],
                    Ok(copy_with_name(created[i], new_name)), NoSrc)
    /\ UNCHANGED <<heap, a, b, v, status, pt, line, circle, shape_vars, count_vars>>

InitShape == ArrayInit(0) /\ ValuesInit

\* one thread: the calls follow one another
NextShape ==
    \/ NewLoad(1)
    \/ NewReload(1)
    \/ \E name \in ShapeNames : NewStore(1, name)
    \/ NextAvailableId(1)
    \/ ResetIdCounter(1)
    \/ \E i \in 1..MaxShapes, name \in ShapeNames : CopyWithName(1, i, name)

SpecShape == InitShape /\ [][NextShape]_vars

\* every thread: the calls run at the same time
NextShapeThreads ==
    \/ \E t \in Threads : NewLoad(t)
    \/ \E t \in Threads : NewReload(t)
    \/ \E t \in Threads, name \in ShapeNames : NewStore(t, name)
    \/ \E t \in Threads : ResetIdCounter(t)

SpecShapeThreads == InitShape /\ [][NextShapeThreads]_vars

-----------------------------------------------------------------------------
(* Tracked Points created, cloned and dropped, and the counters reset.      *)
(* tracked holds the Points alive; last.pre the three counts before a call. *)

Counts == <<CONSTRUCTOR_COUNT, DESTRUCTOR_COUNT, CLONE_COUNT>>

\* Point::new(x, y)
TrackedNew(x, y) ==
    /\ Running
    /\ Len(tracked) < MaxLen
    /\ CONSTRUCTOR_COUNT < MaxCount
    /\ CONSTRUCTOR_COUNT' = fetch_add(CONSTRUCTOR_COUNT)
    /\ tracked' = Append(tracked, Tracked_new(x, y, CONSTRUCTOR_COUNT))
    /\ last' = Call("tracked_new", "tracked", 0, Point_new(x, y), Counts, Unit, NoSrc)
    /\ UNCHANGED <<heap, a, b, v, status, pt, line, circle, shape_vars,
                   DESTRUCTOR_COUNT, CLONE_COUNT>>

\* Point::default()
TrackedDefault ==
    /\ Running
    /\ Len(tracked) < MaxLen
    /\ CONSTRUCTOR_COUNT < MaxCount
    /\ CONSTRUCTOR_COUNT' = fetch_add(CONSTRUCTOR_COUNT)
    /\ tracked' = Append(tracked, Tracked_new(0, 0, CONSTRUCTOR_COUNT))
    /\ last' = Call("tracked_default", "tracked", 0, Point_default, Counts, Unit, NoSrc)
    /\ UNCHANGED <<heap, a, b, v, status, pt, line, circle, shape_vars,
                   DESTRUCTOR_COUNT, CLONE_COUNT>>

\* tracked[i].clone()
TrackedClone(i) ==
    /\ Running
    /\ i \in 1..Len(tracked)
    /\ Len(tracked) < MaxLen
    /\ CONSTRUCTOR_COUNT < MaxCount
    /\ CONSTRUCTOR_COUNT' = fetch_add(CONSTRUCTOR_COUNT)
    /\ CLONE_COUNT' = fetch_add(CLONE_COUNT)
    /\ tracked' = Append(tracked, Tracked_new(tracked[i].x, tracked[i].y, CONSTRUCTOR_COUNT))
    /\ last' = Call("tracked_clone", "tracked", i, Point_default, Counts, Unit, NoSrc)
    /\ UNCHANGED <<heap, a, b, v, status, pt, line, circle, shape_vars, DESTRUCTOR_COUNT>>

\* tracked[i] goes out of scope: impl Drop for Point
TrackedDrop(i) ==
    /\ Running
    /\ i \in 1..Len(tracked)
    /\ DESTRUCTOR_COUNT' = fetch_add(DESTRUCTOR_COUNT)
    /\ tracked' = Without(tracked, i)
    /\ last' = Call("tracked_drop", "tracked", i, Point_default, Counts, Unit, NoSrc)
    /\ UNCHANGED <<heap, a, b, v, status, pt, line, circle, shape_vars,
                   CONSTRUCTOR_COUNT, CLONE_COUNT>>

\* Point::reset_counts(): the Points alive stay alive
ResetCounts ==
    /\ Running
    /\ CONSTRUCTOR_COUNT' = 0
    /\ DESTRUCTOR_COUNT' = 0
    /\ CLONE_COUNT' = 0
    /\ tracked' = [i \in 1..Len(tracked) |-> [tracked[i] EXCEPT !.since_reset = FALSE]]
    /\ last' = Call("reset_counts", "tracked", 0, Point_default, Counts, Unit, NoSrc)
    /\ UNCHANGED <<heap, a, b, v, status, pt, line, circle, shape_vars>>

\* Point::print_statistics(): the 'Objects still alive' figure
PrintStatistics ==
    /\ Running
    /\ \E r \in objects_still_alive(CONSTRUCTOR_COUNT, DESTRUCTOR_COUNT) :
          /\ last' = Call("print_statistics", "tracked", 0, Point_default, Counts, r, NoSrc)
          /\ status' = IF r = Panic THEN "panicked" ELSE status
    /\ UNCHANGED <<heap, a, b, v, pt, line, circle, shape_vars, count_vars>>

InitTracked == ArrayInit(0) /\ ValuesInit

NextTracked ==
    \/ \E p \in Points : TrackedNew(p.x, p.y)
    \/ TrackedDefault
    \/ \E i \in 1..MaxLen : TrackedClone(i)
    \/ \E i \in 1..MaxLen : TrackedDrop(i)
    \/ ResetCounts
    \/ PrintStatistics

SpecTracked == InitTracked /\ [][NextTracked]_vars

-----------------------------------------------------------------------------
(* Properties *)

\* the contents, after the last call, of the Array it was made on
Post == Data(last.target)

Pre == last.pre

IndexOps == {"get_element", "index", "index_mut"}

Mutators == {"set_element", "index_mut", "push", "pop", "resize", "clear"}

\* the element the code's index i designates
At(data, i) == data[i + 1]

\* C1: no index access panics: in every state of the Array, the empty one
\* included, get_element(i), arr[i] and arr[i] = p complete for every i.
C1_IndexNeverPanics ==
    last.op \in IndexOps => last.ret # Panic /\ status = "running"

\* C2: once b is a clone of a, a write to a (set_element, indexed
\* assignment, push, pop, resize, clear) leaves the length and every element
\* of b as they were, and a write to b leaves a as it was.
C2_CloneIndependent ==
    [][(Live("a") /\ Live("b") /\ last'.op \in Mutators)
         => /\ last'.target = "a" => b' = b /\ Data("b")' = Data("b")
            /\ last'.target = "b" => a' = a /\ Data("a")' = Data("a")]_vars

C2_Witness ==
    /\ Live("b")
    /\ last.op \in Mutators
    /\ last.target = "a"
    /\ Post # Pre
    /\ Data("b") = Pre

\* C3: on an Array of length n > 0, get_element(i) and arr[i] return the
\* element at i when i < n and the element at 0 when i >= n, and leave the
\* Array unchanged.
C3_ReadFallback ==
    (last.op \in {"get_element", "index"} /\ Len(Pre) > 0)
        => /\ last.ret = Ok(IF last.idx < Len(Pre) THEN At(Pre, last.idx) ELSE At(Pre, 0))
           /\ Post = Pre
           /\ status = "running"

C3_Witness ==
    /\ last.op = "get_element"
    /\ Len(Pre) > 1
    /\ last.idx > Len(Pre)
    /\ last.ret = Ok(At(Pre, 0))
    /\ At(Pre, 0) # At(Pre, Len(Pre) - 1)

\* C4: set_element(i, p) on an Array of length n writes p to slot i and
\* nothing else when i < n, and changes nothing (no slot, slot 0 included,
\* nor the length) when i >= n.
C4_SetElementFrame ==
    last.op = "set_element"
        => /\ Len(Post) = Len(Pre)
           /\ \A i \in 0..(Len(Pre) - 1) :
                At(Post, i) = IF i = last.idx THEN last.point ELSE At(Pre, i)

C4_Witness ==
    /\ last.op = "set_element"
    /\ Len(Pre) > 0
    /\ last.idx >= Len(Pre)
    /\ last.point # At(Pre, 0)
    /\ Post = Pre

\* C5: on an Array of length n > 0, arr[i] = q writes q to slot i when
\* i < n and to slot 0 when i >= n, and leaves every other slot and the
\* length unchanged; set_element(i, q) for the same i >= n changes nothing.
C5_IndexWriteThrough ==
    (last.op = "index_mut" /\ Len(Pre) > 0)
        => LET hit == IF last.idx < Len(Pre) THEN last.idx ELSE 0 IN
           /\ status = "running"
           /\ Len(Post) = Len(Pre)
           /\ \A i \in 0..(Len(Pre) - 1) :
                At(Post, i) = IF i = hit THEN last.point ELSE At(Pre, i)
           /\ last.idx >= Len(Pre) => set_element(Pre, last.idx, last.point) = Pre

C5_Witness ==
    /\ last.op = "index_mut"
    /\ Len(Pre) > 1
    /\ last.idx >= Len(Pre)
    /\ At(Pre, 0) # last.point
    /\ At(Post, 0) = last.point
    /\ At(Pre, Len(Pre) - 1) # last.point

\* C6: size() is the number of stored elements after every call:
\* with_size(n) gives n, push adds 1, a pop returning Some takes 1 away, a
\* pop returning None leaves 0, resize(k) gives k, clear() gives 0 and
\* is_empty(), and set_element and indexed assignment leave it unchanged.
C6_LengthInvariant ==
    /\ last.op = "with_size" => size(Post) = last.idx
    /\ last.op = "push" => size(Post) = size(Pre) + 1
    /\ (last.op = "pop" /\ last.ret # None) => size(Post) = size(Pre) - 1
    /\ (last.op = "pop" /\ last.ret = None) => size(Post) = 0 /\ size(Pre) = 0
    /\ last.op = "resize" => size(Post) = last.idx
    /\ last.op = "clear" => size(Post) = 0 /\ is_empty(Post)
    /\ last.op \in {"set_element", "index_mut"} => size(Post) = size(Pre)

C6_Witness ==
    /\ last.op = "pop"
    /\ last.ret # None
    /\ size(Pre) = MaxLen
    /\ size(Post) = MaxLen - 1

\* C7: pop() on a non-empty Array removes the last element, returns Some of
\* it and leaves the elements before it unchanged; on an empty Array it
\* returns None, leaves the Array empty and does not panic.
C7_Pop ==
    last.op = "pop"
        => /\ status = "running"
           /\ IF Pre = <<>>
              THEN last.ret = None /\ Post = <<>>
              ELSE /\ last.ret = Some(At(Pre, Len(Pre) - 1))
                   /\ Len(Post) = Len(Pre) - 1
                   /\ \A i \in 0..(Len(Pre) - 2) : At(Post, i) = At(Pre, i)

C7_Witness ==
    /\ last.op = "pop"
    /\ Len(Pre) > 1
    /\ At(Pre, 0) # At(Pre, Len(Pre) - 1)
    /\ last.ret = Some(At(Pre, Len(Pre) - 1))

\* C8: resize(k) on an Array of length n gives length k; when k > n the
\* first n elements are kept in order and slots n..k-1 hold the default
\* Point; when k < n the first k elements are kept in order.
C8_Resize ==
    last.op = "resize"
        => /\ Len(Post) = last.idx
           /\ \A i \in 0..(last.idx - 1) :
                At(Post, i) = IF i < Len(Pre) THEN At(Pre, i) ELSE Point_default

C8_Witness ==
    /\ last.op = "resize"
    /\ Len(Pre) > 1
    /\ last.idx < Len(Pre)
    /\ last.idx > 0
    /\ At(Pre, 0) # Point_default

\* C9: resize(size()) changes neither the length nor any element, in every
\* state of the Array, the empty one included.
C9_ResizeToSizeIsNoOp ==
    (last.op = "resize" /\ last.idx = size(Pre)) => Post = Pre

C9_Witness ==
    /\ last.op = "resize"
    /\ last.idx = size(Pre)
    /\ size(Pre) > 1
    /\ At(Pre, 1) # Point_default

\* C10: a sequence of Points turned into an Array by Array::from and back
\* into a Vec by Vec::from is the sequence it was: same length, same
\* elements, same order; the empty sequence included.
C10_ConversionRoundTrip ==
    (last.op = "into" /\ last.src.valid)
        => /\ v # NoVec
           /\ heap[v].used
           /\ heap[v].elems = last.src.elems

C10_Witness ==
    /\ last.op = "into"
    /\ last.src.valid
    /\ Len(last.src.elems) > 1
    /\ At(last.src.elems, 0) # At(last.src.elems, 1)

\* C11: with_size(n) gives an Array of length n whose every slot holds the
\* default Point, for every n >= 0; Array::new() and Array::default() give
\* the Array that with_size(10) gives.
C11_Construction ==
    /\ last.op = "with_size"
         => Len(Post) = last.idx /\ \A i \in 0..(last.idx - 1) : At(Post, i) = Point_default
    /\ last.op \in {"new", "default"}
         => /\ Len(Post) = 10
            /\ \A i \in 0..9 : At(Post, i) = Point_default
            /\ Post = with_size(10)

C11_Witness ==
    /\ last.op = "default"
    /\ size(Post) = 10
    /\ At(Post, 9) = Point_default

\* C12: push(p) on an Array of length n gives length n + 1 with p in slot n
\* and slots 0..n-1 unchanged; it succeeds in every state, the empty Array
\* included.
C12_Push ==
    last.op = "push"
        => /\ status = "running"
           /\ Len(Post) = Len(Pre) + 1
           /\ At(Post, Len(Pre)) = last.point
           /\ \A i \in 0..(Len(Pre) - 1) : At(Post, i) = At(Pre, i)

C12_Witness ==
    /\ last.op = "push"
    /\ Len(Pre) > 0
    /\ At(Pre, 0) # last.point
    /\ At(Post, Len(Pre)) = last.point

\* C13: push(p) followed at once by pop() returns Some(p) and leaves the
\* Array as it was before the push: same length, same elements, same order.
C13_PushPopRoundTrip ==
    (last.op = "pop" /\ last.src.valid)
        => /\ last.ret = Some(last.point)
           /\ Post = last.src.elems

C13_Witness ==
    /\ last.op = "pop"
    /\ last.src.valid
    /\ Len(last.src.elems) > 0
    /\ At(last.src.elems, Len(last.src.elems) - 1) # last.point
    /\ last.ret = Some(last.point)

\* C14: a clone equals the Array it was made from (same size, equal
\* elements); arr2 = arr1.clone() replaces the size and contents of arr2 by
\* those of arr1 whatever size arr2 had, and leaves arr1 as it was;
\* arr = arr.clone() leaves arr unchanged.
C14_CopyAndAssign ==
    [][\A s \in Targets, t \in Targets :
         Clone(s, t)
           => /\ Live(t)'
              /\ size(Data(t))' = size(Data(s))
              /\ Data(t)' = Data(s)
              /\ s # t => /\ Arr(s)' = Arr(s)
                          /\ Data(s)' = Data(s)
                          /\ eq(heap', Arr(t)', Arr(s)')]_vars

C14_Witness ==
    /\ last.op = "clone"
    /\ last.target = "b"
    /\ last.idx > size(Pre)
    /\ size(Pre) > 1
    /\ At(Pre, 0) # At(Pre, 1)
    /\ eq(heap, a, b)
    /\ a # b

\* the sum of the first n numbers of a sequence
RECURSIVE SumTo(_, _)
SumTo(numbers, n) == IF n = 0 THEN 0 ELSE numbers[n] + SumTo(numbers, n - 1)

\* C15: centroid() is the componentwise mean of the stored Points (the sum
\* of the x over the count, the sum of the y over the count), (1, 2/3) for
\* (0,0), (2,0), (1,2); the default Point for an empty Array; the Array is
\* left as it was.
C15_Centroid ==
    /\ last.op = "centroid"
         => LET n == Len(Pre)
                xs == [i \in 1..n |-> Pre[i].x]
                ys == [i \in 1..n |-> Pre[i].y]
            IN /\ Post = Pre
               /\ status = "running"
               /\ last.ret = IF n = 0 THEN Ok(Point_new(Whole(0), Whole(0)))
                              ELSE Ok(Point_new(Frac(SumTo(xs, n), n), Frac(SumTo(ys, n), n)))
    /\ centroid(<<Point_new(0, 0), Point_new(2, 0), Point_new(1, 2)>>)
         = Point_new(Whole(1), Frac(2, 3))

C15_Witness ==
    /\ last.op = "centroid"
    /\ Len(Pre) = 3
    /\ last.ret = Ok(Point_new(Whole(2), Frac(8, 3)))

C17_TotalPathDistance ==
    last.op = "total_path_distance"
        => LET n == Len(Pre)
               steps == [i \in 1..(n - 1) |-> distance(Pre[i], Pre[i + 1])]
           IN /\ n < 2 => last.ret = Ok(0)
              /\ n >= 2 => last.ret = Ok(SumTo(steps, n - 1))

C17_Witness ==
    /\ last.op = "total_path_distance"
    /\ Len(Pre) = 3
    /\ Pre[1] = Point_new(0, 0)
    /\ Pre[2] = Point_new(3, 4)
    /\ Pre[3] = Point_new(3, 0)
    /\ last.ret = Ok(9)

\* C18: a.distance(b) equals b.distance(a) for all Points a and b.
C18_DistanceSymmetric ==
    last.op = "distance" => last.ret = Ok(distance(last.idx, last.point))

C18_Witness ==
    /\ last.op = "distance"
    /\ last.point.x < last.idx.x
    /\ last.point.y < last.idx.y
    /\ last.ret = Ok(5)

\* C19: p * k and k * p both equal (p.x * k, p.y * k) for every Point p and
\* scalar k, and after p *= k the Point p has the value p * k had.
C19_ScalarMul ==
    LET p == last.point
        k == last.idx
        product == Point_new(fmul(p.x, k), fmul(p.y, k))
    IN /\ last.op = "mul" => last.ret = Ok(product)
       /\ last.op = "f64_mul" => last.ret = Ok(product) /\ last.ret = Ok(mul(p, k))
       /\ last.op = "mul_assign" => pt = product /\ pt = mul(p, k)

C19_Witness ==
    /\ last.op = "mul_assign"
    /\ last.idx = Frac(3, 2)
    /\ last.point.x # Whole(0)
    /\ last.point.y # Whole(0)
    /\ last.point.x # last.point.y
    /\ pt.y = fmul(last.point.y, Frac(3, 2))

\* C20: length() is never stale: after any sequence of set_start and
\* set_end it is the distance between the endpoints the Line has now, the
\* Point just set included, and 0 for a Line whose endpoints coincide.
C20_LengthNeverStale ==
    /\ last.op = "set_start"
         => Line_start(line) = last.point /\ Line_end(line) = Line_end(Pre)
    /\ last.op = "set_end"
         => Line_end(line) = last.point /\ Line_start(line) = Line_start(Pre)
    /\ last.op = "length"
         => /\ line = Pre
            /\ last.ret = Ok(distance(Line_start(line), Line_end(line)))
            /\ Line_start(line) = Line_end(line) => last.ret = Ok(0)
            /\ last.idx = 1
                 => last.ret = Ok(distance(last.point, Line_end(last.src.elems[1])))
            /\ last.idx = 2
                 => last.ret = Ok(distance(Line_start(last.src.elems[1]), last.point))

C20_Witness ==
    /\ last.op = "length"
    /\ last.idx = 2
    /\ Line_end(last.src.elems[1]) # last.point
    /\ Line_start(last.src.elems[1]) # last.point
    /\ last.ret = Ok(5)

\* p lies on the segment from s to e: the three are collinear and p is not
\* beyond either end
OnSegment(s, e, p) ==
    /\ (e.x - s.x) * (p.y - s.y) = (e.y - s.y) * (p.x - s.x)
    /\ (p.x - s.x) * (p.x - e.x) <= 0
    /\ (p.y - s.y) * (p.y - e.y) <= 0

\* C21: contains_point(p) is true exactly when the distances from p to the
\* two endpoints add up to the length, that is when p lies on the segment:
\* on the Line from (0,0) to (4,0) it is true for (2,0) and for both
\* endpoints and false for (2,1).
C21_ContainsPoint ==
    last.op = "contains_point"
      => /\ line = Pre
         /\ last.ret = Ok(OnSegment(Line_start(line), Line_end(line), last.point))
         /\ last.ret = Ok(TRUE) \/ last.ret = Ok(FALSE)
         /\ last.point \in {Line_start(line), Line_end(line)} => last.ret = Ok(TRUE)
         /\ line = Line_new(Point_new(0, 0), Point_new(4, 0))
              => /\ last.point = Point_new(2, 0) => last.ret = Ok(TRUE)
                 /\ last.point = Point_new(2, 1) => last.ret = Ok(FALSE)

C21_Witness ==
    /\ last.op = "contains_point"
    /\ line = Line_new(Point_new(0, 0), Point_new(4, 0))
    /\ last.point = Point_new(2, 1)
    /\ last.ret = Ok(FALSE)

\* C22: slope() is None exactly when the endpoints have the same x, a
\* vertical or zero-length Line, and otherwise Some(dy / dx), Some(0) for a
\* horizontal Line; it has no other outcome.
C22_Slope ==
    last.op = "slope"
      => LET dx == Line_end(line).x - Line_start(line).x
             dy == Line_end(line).y - Line_start(line).y
         IN /\ line = Pre
            /\ Running
            /\ last.ret = None <=> dx = 0
            /\ dx # 0 => /\ last.ret.tag = "some"
                          /\ last.ret.val.den > 0
                          /\ last.ret.val.num * dx = dy * last.ret.val.den
            /\ dx # 0 /\ dy = 0 => last.ret = Some(Whole(0))

C22_Witness ==
    /\ last.op = "slope"
    /\ Line_start(line).x = Line_end(line).x
    /\ Line_start(line).y # Line_end(line).y
    /\ last.ret = None

\* the square of the distance between two Points
Dist2(p, q) == (p.x - q.x) * (p.x - q.x) + (p.y - q.y) * (p.y - q.y)

\* C23: Circle::contains_point(p) is true if and only if p is no farther
\* from the center than the radius, the boundary included: the circle of
\* radius 5 around (0,0) contains (3,4) and (5,0) and not (6,0).
C23_CircleContainsPoint ==
    last.op = "circle_contains_point"
      => /\ circle = Pre
         /\ circle.radius >= 0
              => last.ret = Ok(Dist2(circle.center, last.point)
                                 <= circle.radius * circle.radius)
         /\ circle = Circle_new(Point_new(0, 0), 5)
              => /\ last.point = Point_new(3, 4) => last.ret = Ok(TRUE)
                 /\ last.point = Point_new(5, 0) => last.ret = Ok(TRUE)
                 /\ last.point = Point_new(6, 0) => last.ret = Ok(FALSE)

C23_Witness ==
    /\ last.op = "circle_contains_point"
    /\ circle = Circle_new(Point_new(0, 0), 5)
    /\ last.point = Point_new(3, 4)
    /\ last.ret = Ok(TRUE)

\* C24: intersects(other) is true if and only if the distance between the
\* centers is at least the difference of the radii and at most their sum,
\* tangency included: circles with centers 4 apart and radii 3 and 2
\* intersect, circles touching from outside or from inside intersect,
\* circles farther apart than the sum of the radii do not, and neither does
\* a circle strictly inside another.
C24_Intersects ==
    last.op = "intersects"
      => LET r1 == circle.radius
             r2 == last.idx
             d2 == Dist2(circle.center, last.point)
         IN /\ circle = Pre
            /\ last.ret = Ok((r1 - r2) * (r1 - r2) <= d2 /\ d2 <= (r1 + r2) * (r1 + r2))
            /\ d2 = (r1 + r2) * (r1 + r2) => last.ret = Ok(TRUE)
            /\ d2 = (r1 - r2) * (r1 - r2) => last.ret = Ok(TRUE)
            /\ d2 > (r1 + r2) * (r1 + r2) => last.ret = Ok(FALSE)
            /\ d2 < (r1 - r2) * (r1 - r2) => last.ret = Ok(FALSE)
            /\ d2 = 16 /\ r1 = 3 /\ r2 = 2 => last.ret = Ok(TRUE)

C24_Witness ==
    /\ last.op = "intersects"
    /\ circle = Circle_new(Point_new(0, 0), 3)
    /\ last.point = Point_new(MaxCoord, 0)
    /\ last.idx = MaxCoord - 3
    /\ last.ret = Ok(TRUE)

\* C25: translate and scale are pure: the Circle they are called on is as
\* it was; translate(offset) returns a Circle with the center moved by the
\* offset and the same radius, scale(f) a Circle with the same center and
\* the radius multiplied by f.
C25_TranslateScalePure ==
    /\ last.op = "translate"
         => /\ circle = Pre
            /\ last.ret.val.center.x = Pre.center.x + last.point.x
            /\ last.ret.val.center.y = Pre.center.y + last.point.y
            /\ last.ret.val.radius = Pre.radius
    /\ last.op = "scale"
         => /\ circle = Pre
            /\ last.ret.val.center = Pre.center
            /\ last.ret.val.radius = Pre.radius * last.idx

C25_Witness ==
    /\ last.op = "scale"
    /\ last.idx = 2
    /\ circle = Circle_new(Point_new(1, 2), 3)
    /\ last.ret = Ok(Circle_new(Point_new(1, 2), 6))

\* C26: Shape ids are handed out in sequence: after reset_id_counter() the
\* k-th call of Shape::new returns a Shape whose id is k, next_available_id()
\* is then k + 1, and copy_with_name takes no id.
C26_IdSequence ==
    LET k == Len(created) IN
    /\ last.op = "reset_id_counter" /\ pc[1] = "idle" => k = 0 /\ NEXT_ID = 1
    /\ last.op = "shape_new"
         => /\ k >= 1
            /\ Shape_id(last.ret.val) = k
            /\ created[k] = last.ret.val
    /\ \A i \in 1..k : Shape_id(created[i]) = i
    /\ pc[1] = "idle" => NEXT_ID = k + 1
    /\ last.op = "next_available_id" => last.ret = Ok(k + 1)
    /\ last.op = "copy_with_name"
         => /\ NEXT_ID = last.idx
            /\ Shape_id(last.ret.val) = Shape_id(Pre)
            /\ last.ret.val.name # Pre.name => last.ret.val # Pre

C26_Witness ==
    /\ last.op = "next_available_id"
    /\ Len(created) = 2
    /\ Shape_id(created[1]) = 1
    /\ Shape_id(created[2]) = 2
    /\ last.ret = Ok(3)

\* C28: any two Shapes returned by distinct calls of Shape::new with no
\* reset_id_counter() between them have distinct ids, also when the calls
\* run at the same time on different threads.
C28_UniqueIds ==
    \A i, j \in 1..Len(created) :
        i # j => Shape_id(created[i]) # Shape_id(created[j])

\* C27: constructor/destructor balance of the tracked Point: after
\* reset_counts() every new, default and clone adds exactly 1 to the
\* constructor count (clone also 1 to the clone count) and every drop
\* exactly 1 to the destructor count, so once every Point created since the
\* reset has been dropped the two counts are equal.
C27_Balance ==
    /\ last.op \in {"tracked_new", "tracked_default"}
         => Counts = <<Pre[1] + 1, Pre[2], Pre[3]>>
    /\ last.op = "tracked_clone" => Counts = <<Pre[1] + 1, Pre[2], Pre[3] + 1>>
    /\ last.op = "tracked_drop" => Counts = <<Pre[1], Pre[2] + 1, Pre[3]>>
    /\ last.op = "reset_counts" => Counts = <<0, 0, 0>>
    /\ (\A i \in 1..Len(tracked) : ~tracked[i].since_reset)
         => CONSTRUCTOR_COUNT = DESTRUCTOR_COUNT

\* C29: when several elements share the greatest distance to the origin,
\* farthest_from_origin() returns the one with the highest index among
\* them, the last and not the first.
C29_FarthestTie ==
    last.op = "farthest_from_origin" /\ Pre # <<>>
        => LET i == last.ret.val[1]
           IN /\ last.ret.val[2] = At(Pre, i)
              /\ \A j \in 0..(Len(Pre) - 1) :
                   distance_to_origin(At(Pre, j)) >= distance_to_origin(At(Pre, i))
                       => j <= i

C29_Witness ==
    /\ last.op = "farthest_from_origin"
    /\ Len(Pre) = 3
    /\ At(Pre, 0) = Point_new(MaxCoord, 0)
    /\ At(Pre, 1) = Point_new(3, 0)
    /\ At(Pre, 2) = Point_new(0, MaxCoord)
    /\ last.ret = Some(<<2, Point_new(0, MaxCoord)>>)

\* C30: in every reachable state, also after reset_counts() was called
\* while Points were alive that are dropped afterwards, the destructor
\* count does not exceed the constructor count, and the 'Objects still
\* alive' figure of print_statistics is a number that is not negative.
C30_AliveNotNegative ==
    /\ DESTRUCTOR_COUNT <= CONSTRUCTOR_COUNT
    /\ last.op = "print_statistics" => last.ret.tag = "ok" /\ last.ret.val >= 0

TypeOK ==
    /\ a.data \in BufIds \cup {0}
    /\ b.data \in BufIds \cup {0}
    /\ v \in BufIds \cup {0}
    /\ status \in {"running", "panicked"}
    /\ \A id \in BufIds : Len(heap[id].elems) <= MaxLen
                            \/ Len(heap[id].elems) <= DEFAULT_CAPACITY

====
